---- MODULE Spec2Model ----
(***************************************************************************)
(* Model of src/app.py: module startup, PaymentBot._load_customers,        *)
(* parse_payment, find_customer, map_customer_with_gpt, record_to_sheets   *)
(* and handle_message.                                                     *)
(*                                                                         *)
(* A Python str is a sequence of one-character strings.  Python's None and *)
(* a JSON element that is not a string are one-element sequences holding a *)
(* reserved token, so that every value stays comparable with a string.     *)
(* Logging calls have no effect on the modelled state: the name logger is  *)
(* taken as bound throughout (app.py binds it at line 38, after its first  *)
(* use at line 28).  The other environment variables of line 23 are set.   *)
(* What the LLM call answers does not depend on the prompt it is sent.     *)
(***************************************************************************)
EXTENDS Integers, Sequences, FiniteSets, TLC

VARIABLES
    cfg,            \* CUSTOMERS_JSON, the roster configuration payload (app.py:19)
    pc,             \* "boot" | "idle" | "llm" | "record" | "crashed"
    exc,            \* the exception that escaped ("none" when none did)
    customers,      \* PaymentBot.customers, the Roster
    name_to_full,   \* PaymentBot.name_to_full, a dict: sequence of <<key, value>> in insertion order
    caller,         \* "none" | "handler" (handle_message) | "direct" (find_customer called directly)
    update,         \* the Update being handled
    parsed,         \* parse_payment's result for the handled message, or NoParse
    name,           \* the name find_customer was called with
    customer_full,  \* find_customer's result, or None
    tier,           \* the tier that produced customer_full
    attempt,        \* tenacity's attempt number inside the running retry wrapper
    llmCalls,       \* openai_client.chat.completions.create calls made for this request
    llmLog,         \* what each of those calls did: [raised, content], in call order
    closest_matches,    \* map_customer_with_gpt's closest_matches, << >> before it ran
    relevant_customers, \* map_customer_with_gpt's relevant_customers, the pool in the prompt
    appendCalls,    \* sheet.append_row calls made for this request
    ledger,         \* rows appended to the worksheet by this request
    replies         \* message.reply_text calls made for this request

vars == << cfg, pc, exc, customers, name_to_full, caller, update, parsed, name,
           customer_full, tier, attempt, llmCalls, llmLog, closest_matches,
           relevant_customers, appendCalls, ledger, replies >>

----------------------------------------------------------------------------
(* Bounds *)

MaxRoster == 2      \* longest roster payload
FracDigits == 2     \* most digits after the decimal point in a numeric token

(* Program constants *)

MaxAttempts == 3    \* stop_after_attempt(3)

----------------------------------------------------------------------------
(* Values *)

None == << "\\None" >>
NonString == << "\\int" >>

\* parse_payment's None, as a record so that it compares with a parsed payment
NoParse == [ name |-> None, amount |-> 0 ]

Range(s) == { s[i] : i \in DOMAIN s }

Truthy(x) == x # None /\ x # << >>

----------------------------------------------------------------------------
(* str methods and the two regular expressions *)

Whitespace == { " ", "\t" }
Digits == << "0", "1", "2", "3", "4", "5", "6", "7", "8", "9" >>
UpperChars == << "A", "B", "C", "D", "E", "F", "G", "H", "I", "J", "K", "L", "M",
                 "N", "O", "P", "Q", "R", "S", "T", "U", "V", "W", "X", "Y", "Z" >>
LowerChars == << "a", "b", "c", "d", "e", "f", "g", "h", "i", "j", "k", "l", "m",
                 "n", "o", "p", "q", "r", "s", "t", "u", "v", "w", "x", "y", "z" >>

DigitSet == Range(Digits)
UpperSet == Range(UpperChars)

DigitVal(c) == (CHOOSE i \in DOMAIN Digits : Digits[i] = c) - 1

LowerChar(c) ==
    IF c \in UpperSet
    THEN LowerChars[CHOOSE i \in DOMAIN UpperChars : UpperChars[i] = c]
    ELSE c

\* str.lower()
Lower(s) == [ i \in DOMAIN s |-> LowerChar(s[i]) ]

\* str.strip()
Strip(s) ==
    LET nonws == { i \in DOMAIN s : s[i] \notin Whitespace }
    IN  IF nonws = {} THEN << >>
        ELSE LET lo == CHOOSE i \in nonws : \A j \in nonws : i <= j
                 hi == CHOOSE i \in nonws : \A j \in nonws : j <= i
             IN  SubSeq(s, lo, hi)

\* s[from:] (1-based)
Drop(s, from) == SubSeq(s, from, Len(s))

\* the length of the longest prefix of s whose characters are all in set
RECURSIVE RunLen(_, _)
RunLen(s, set) ==
    IF s = << >> \/ Head(s) \notin set THEN 0 ELSE 1 + RunLen(Tail(s), set)

\* re.match(r'\((.*?)\)\s*(.*)', customer): the lazy alias ends at the first ")"
AliasMatch(customer) ==
    /\ Len(customer) >= 1
    /\ customer[1] = "("
    /\ \E i \in DOMAIN customer : customer[i] = ")"

\* match.group(2) of the same match
AliasGroup2(customer) ==
    LET close == CHOOSE i \in DOMAIN customer :
                    /\ customer[i] = ")"
                    /\ \A j \in DOMAIN customer : customer[j] = ")" => i <= j
        rest == Drop(customer, close + 1)
    IN  Drop(rest, RunLen(rest, Whitespace) + 1)

----------------------------------------------------------------------------
(* dict: a sequence of <<key, value>> pairs in insertion order *)

DictKeys(d) == [ i \in DOMAIN d |-> d[i][1] ]

DictHas(d, k) == \E i \in DOMAIN d : d[i][1] = k

DictGet(d, k) == d[CHOOSE i \in DOMAIN d : d[i][1] = k][2]

\* DictSet with an existing key keeping its first value
DictSet_keepFirst(d, k, v) ==
    IF DictHas(d, k) THEN d ELSE Append(d, << k, v >>)

\* d[k] = v: an existing key keeps its position and takes the new value
DictSet(d, k, v) ==
    IF DictHas(d, k)
    THEN [ i \in DOMAIN d |-> IF d[i][1] = k THEN << k, v >> ELSE d[i] ]
    ELSE Append(d, << k, v >>)

----------------------------------------------------------------------------
(* module startup and PaymentBot._load_customers *)

\* line 23: `not CUSTOMERS_JSON` holds for an unset variable and for the empty string
EnvMissing(payload) == payload.kind \in { "absent", "empty" }

\* lines 47-52: json.loads raises on text that is not JSON; len() raises on a
\* JSON number, null or boolean; both are caught and leave the empty roster
LoadRoster(payload) ==
    IF payload.kind = "list" THEN payload.val ELSE << >>

\* the key one roster element is registered under (lines 55-62), from the stripped element
AliasKey(stripped) ==
    IF AliasMatch(stripped) THEN Strip(AliasGroup2(stripped)) ELSE stripped

\* one iteration of the loop of lines 54-62
IndexOne(d, customer) ==
    LET stripped == Strip(customer)
    IN  IF stripped # << >> THEN DictSet(d, AliasKey(stripped), stripped) ELSE d

\* str.strip of line 55 raises AttributeError on an element that is no string
LoadRaises(roster) == \E i \in DOMAIN roster : roster[i] = NonString

\* the loop of lines 54-62 over a roster of strings, from the dict d; the test on
\* next makes each iteration's dict a value before the next iteration starts, as in
\* the loop, instead of a chain of pending updates as long as the roster
RECURSIVE BuildIndex(_, _)
BuildIndex(d, roster) ==
    IF roster = << >> THEN d
    ELSE LET next == IndexOne(d, Head(roster))
         IN  IF next = << >> THEN BuildIndex(<< >>, Tail(roster))
             ELSE BuildIndex(next, Tail(roster))

----------------------------------------------------------------------------
(* PaymentBot.parse_payment *)

Currencies == { << "G", "E", "L" >>, << "U", "S", "D" >>, << "E", "U", "R" >> }

\* the length of the prefix of s that \d+(?:\.\d+)? matches, 0 when it matches none
NumberLen(s) ==
    LET d1 == RunLen(s, DigitSet)
        after == Drop(s, d1 + 2)
        d2 == RunLen(after, DigitSet)
    IN  IF d1 = 0 THEN 0
        ELSE IF Len(s) > d1 /\ s[d1 + 1] = "." /\ d2 > 0 THEN d1 + 1 + d2
        ELSE d1

\* TailMatch without the optional currency code
TailMatch_noCurrency(s) ==
    LET ws == RunLen(s, Whitespace)
        rest == Drop(s, ws + 1)
        n == NumberLen(rest)
    IN  ws >= 1 /\ n >= 1 /\ Drop(rest, n + 1) = << >>

\* s matches \s+(\d+(?:\.\d+)?)\s*(?:GEL|USD|EUR)?$
TailMatch(s) ==
    LET ws == RunLen(s, Whitespace)
        rest == Drop(s, ws + 1)
        n == NumberLen(rest)
        after == Drop(rest, n + 1)
        cur == Drop(after, RunLen(after, Whitespace) + 1)
    IN  ws >= 1 /\ n >= 1 /\ (cur = << >> \/ cur \in Currencies)

\* match.group(2) of a tail that matches
TailNumber(s) ==
    LET rest == Drop(s, RunLen(s, Whitespace) + 1)
    IN  SubSeq(rest, 1, NumberLen(rest))

RECURSIVE Pow10(_)
Pow10(n) == IF n = 0 THEN 1 ELSE 10 * Pow10(n - 1)

RECURSIVE DigitsVal(_)
DigitsVal(s) == IF s = << >> THEN 0 ELSE 10 * DigitsVal(SubSeq(s, 1, Len(s) - 1)) + DigitVal(s[Len(s)])

\* float(token), as a count of units of 10^-FracDigits
Float(token) ==
    LET d1 == RunLen(token, DigitSet)
        frac == Drop(token, d1 + 2)
    IN  DigitsVal(SubSeq(token, 1, d1)) * Pow10(FracDigits)
          + DigitsVal(frac) * Pow10(FracDigits - Len(frac))

\* parse_payment with the test of line 72 as amount >= 0
parse_payment_allowZero(text) ==
    LET t == Strip(text)
        cuts == { i \in 0..Len(t) : TailMatch(Drop(t, i + 1)) }
    IN  IF cuts = {} THEN NoParse
        ELSE LET cut == CHOOSE i \in cuts : \A j \in cuts : j <= i
             IN  [ name |-> Strip(SubSeq(t, 1, cut)),
                   amount |-> Float(TailNumber(Drop(t, cut + 1))) ]

\* the greedy (.*) of line 65 takes the longest prefix that leaves a matching tail
parse_payment(text) ==
    LET t == Strip(text)
        cuts == { i \in 0..Len(t) : TailMatch(Drop(t, i + 1)) }
    IN  IF cuts = {} THEN NoParse
        ELSE LET cut == CHOOSE i \in cuts : \A j \in cuts : j <= i
                 amount == Float(TailNumber(Drop(t, cut + 1)))
             IN  IF amount > 0
                 THEN [ name |-> Strip(SubSeq(t, 1, cut)), amount |-> amount ]
                 ELSE NoParse

RECURSIVE NatStr(_)
NatStr(n) == IF n < 10 THEN << Digits[n + 1] >> ELSE Append(NatStr(n \div 10), Digits[(n % 10) + 1])

RECURSIVE FracStr(_, _)
\* the digits of f, a count of units of 10^-width, without trailing zeros
FracStr(f, width) ==
    IF width = 0 \/ f = 0 THEN << >>
    ELSE << Digits[(f \div Pow10(width - 1)) + 1] >> \o FracStr(f % Pow10(width - 1), width - 1)

\* str(amount) of line 101: the shortest decimal that reads back as the float
FloatStr(amount) ==
    LET f == FracStr(amount % Pow10(FracDigits), FracDigits)
    IN  NatStr(amount \div Pow10(FracDigits)) \o << "." >> \o (IF f = << >> THEN << "0" >> ELSE f)

----------------------------------------------------------------------------
(* PaymentBot.find_customer, map_customer_with_gpt, record_to_sheets *)

\* FindCheap without the case-insensitive tier of lines 121-125
FindCheap_noCaseInsensitive(roster, d, n) ==
    IF DictHas(d, n) THEN [ tier |-> "alias", value |-> DictGet(d, n) ]
    ELSE IF n \in Range(roster) THEN [ tier |-> "full", value |-> n ]
    ELSE [ tier |-> "none", value |-> None ]

\* FindCheap whose case-insensitive loop keeps the last key that matches
FindCheap_lastCaseInsensitive(roster, d, n) ==
    LET ci == { i \in DOMAIN d : Lower(d[i][1]) = Lower(n) }
    IN  IF DictHas(d, n) THEN [ tier |-> "alias", value |-> DictGet(d, n) ]
        ELSE IF n \in Range(roster) THEN [ tier |-> "full", value |-> n ]
        ELSE IF ci # {}
             THEN [ tier |-> "ci", value |-> d[CHOOSE i \in ci : \A j \in ci : j <= i][2] ]
        ELSE [ tier |-> "none", value |-> None ]

\* FindCheap without the full-record tier of lines 117-119
FindCheap_noFullRecord(roster, d, n) ==
    LET ci == { i \in DOMAIN d : Lower(d[i][1]) = Lower(n) }
    IN  IF DictHas(d, n) THEN [ tier |-> "alias", value |-> DictGet(d, n) ]
        ELSE IF ci # {}
             THEN [ tier |-> "ci", value |-> d[CHOOSE i \in ci : \A j \in ci : i <= j][2] ]
        ELSE [ tier |-> "none", value |-> None ]

\* lines 113-125: exact alias, exact full record, case-insensitive alias
FindCheap(roster, d, n) ==
    LET ci == { i \in DOMAIN d : Lower(d[i][1]) = Lower(n) }
    IN  IF DictHas(d, n) THEN [ tier |-> "alias", value |-> DictGet(d, n) ]
        ELSE IF n \in Range(roster) THEN [ tier |-> "full", value |-> n ]
        ELSE IF ci # {}
             THEN [ tier |-> "ci", value |-> d[CHOOSE i \in ci : \A j \in ci : i <= j][2] ]
        ELSE [ tier |-> "none", value |-> None ]

Null == << "n", "u", "l", "l" >>

\* GptValidate without the roster membership test of line 170
GptValidate_noMembership(roster, content) ==
    LET result == Strip(content)
    IN  IF result # Null THEN result ELSE None

\* lines 168-173: content.strip() is accepted when it is not "null" and is in the roster
GptValidate(roster, content) ==
    LET result == Strip(content)
    IN  IF result # Null /\ result \in Range(roster) THEN result ELSE None

\* GptBody that raises when the answer fails validation
GptBody_raiseOnInvalid(roster, outcome) ==
    IF outcome.raised \/ outcome.content = None
    THEN [ raised |-> FALSE, value |-> None ]
    ELSE [ raised |-> GptValidate(roster, outcome.content) = None,
           value |-> GptValidate(roster, outcome.content) ]

\* GptBody with an except branch that lets the exception out
GptBody_reraise(roster, outcome) ==
    IF outcome.raised \/ outcome.content = None
    THEN [ raised |-> TRUE, value |-> None ]
    ELSE [ raised |-> FALSE, value |-> GptValidate(roster, outcome.content) ]

\* lines 157-177, the try statement: what the call did (raised, or answered with
\* content, None when the message has no content) to what the function body does
GptBody(roster, outcome) ==
    IF outcome.raised \/ outcome.content = None
    THEN [ raised |-> FALSE, value |-> None ]
    ELSE [ raised |-> FALSE, value |-> GptValidate(roster, outcome.content) ]

\* lines 181-189: True when append_row returned, False when it raised
SheetsBody(ok) == [ raised |-> FALSE, value |-> ok ]

\* tenacity's @retry(stop=stop_after_attempt(3)) around a body that ran for the n-th time
RetryDecision(body, n) ==
    IF ~body.raised THEN "return"
    ELSE IF n >= MaxAttempts THEN "RetryError"
    ELSE "retry"

\* line 84
Sender(u) ==
    IF Truthy(u.username) THEN u.username
    ELSE Strip((IF u.first = None THEN << >> ELSE u.first) \o << " " >>
               \o (IF u.last = None THEN << >> ELSE u.last))

\* line 85
Source(u) == IF u.edited THEN "Edited" ELSE "Direct"

\* Row with the informal name in place of the canonical customer
Row_rawName(u, customer, amount) ==
    [ timestamp |-> "now", customer |-> name, amount |-> FloatStr(amount),
      source |-> Source(u), sender |-> Sender(u.from_user) ]

\* the row of line 183
Row(u, customer, amount) ==
    [ timestamp |-> "now", customer |-> customer, amount |-> FloatStr(amount),
      source |-> Source(u), sender |-> Sender(u.from_user) ]

Reply(kind, who, amount) == [ kind |-> kind, who |-> who, amount |-> amount ]

----------------------------------------------------------------------------
(* difflib.get_close_matches and the candidate pool of map_customer_with_gpt *)

MaxCandidates == 20     \* n=20
CutoffTenths == 2       \* cutoff=0.2
FallbackSize == 30      \* self.customers[:30]

\* the characters of the model in code point order, which orders strings
CharOrder == << "\t", " ", "(", ")", "-", "." >> \o Digits \o UpperChars \o LowerChars

Ord(c) == CHOOSE i \in DOMAIN CharOrder : CharOrder[i] = c

\* x < y for two str
RECURSIVE StrLess(_, _)
StrLess(x, y) ==
    IF y = << >> THEN FALSE
    ELSE IF x = << >> THEN TRUE
    ELSE IF Head(x) # Head(y) THEN Ord(Head(x)) < Ord(Head(y))
    ELSE StrLess(Tail(x), Tail(y))

\* the length of the longest common run of a from i and b from j
RECURSIVE CommonLen(_, _, _, _)
CommonLen(a, b, i, j) ==
    IF i > Len(a) \/ j > Len(b) \/ a[i] # b[j] THEN 0
    ELSE 1 + CommonLen(a, b, i + 1, j + 1)

\* SequenceMatcher.get_matching_blocks, as the number of matched characters: the
\* longest common block, the earliest in a and then in b, and recursively the
\* blocks to its left and to its right
RECURSIVE MatchCount(_, _)
MatchCount(a, b) ==
    IF a = << >> \/ b = << >> THEN 0
    ELSE LET runs == { << i, j, CommonLen(a, b, i, j) >> : i \in DOMAIN a, j \in DOMAIN b }
             k == CHOOSE n \in { r[3] : r \in runs } : \A r \in runs : r[3] <= n
             longest == { r \in runs : r[3] = k }
             best == CHOOSE r \in longest :
                        \A q \in longest : r[1] < q[1] \/ (r[1] = q[1] /\ r[2] <= q[2])
         IN  IF k = 0 THEN 0
             ELSE k + MatchCount(SubSeq(a, 1, best[1] - 1), SubSeq(b, 1, best[2] - 1))
                    + MatchCount(Drop(a, best[1] + k), Drop(b, best[2] + k))

\* SequenceMatcher(None, x, word).ratio() as a fraction: 2.0 * matches / length,
\* and 1.0 for two empty strings
RatioNum(x, word) == IF Len(x) + Len(word) = 0 THEN 1 ELSE 2 * MatchCount(x, word)
RatioDen(x, word) == IF Len(x) + Len(word) = 0 THEN 1 ELSE Len(x) + Len(word)

\* ratio() >= cutoff
ClearsCutoff(x, word) == 10 * RatioNum(x, word) >= CutoffTenths * RatioDen(x, word)

\* (ratio, x) > (ratio, y) for two scored possibilities << x, numerator, denominator >>
ScoredAbove(p, q) ==
    LET sp == p[2] * q[3]
        sq == q[2] * p[3]
    IN  sp > sq \/ (sp = sq /\ StrLess(q[1], p[1]))

\* difflib.get_close_matches(word, possibilities, n=20, cutoff=0.2): the
\* possibilities that clear the cutoff, best first, cut to the n best
get_close_matches(word, possibilities) ==
    LET good == { << x, RatioNum(x, word), RatioDen(x, word) >> :
                    x \in { y \in Range(possibilities) : ClearsCutoff(y, word) } }
        ranked == { << p[1], Cardinality({ q \in good : ScoredAbove(q, p) }) >> : p \in good }
        kept == IF Cardinality(good) < MaxCandidates THEN Cardinality(good) ELSE MaxCandidates
    IN  [ i \in 1..kept |-> (CHOOSE r \in ranked : r[2] = i - 1)[1] ]

\* CandidatePool falling back to the whole roster
CandidatePool_wholeRoster(roster, d, closest) ==
    IF closest # << >>
    THEN [ i \in DOMAIN closest |-> DictGet(d, closest[i]) ]
    ELSE roster

\* lines 145-148: relevant_customers
CandidatePool(roster, d, closest) ==
    IF closest # << >>
    THEN [ i \in DOMAIN closest |-> DictGet(d, closest[i]) ]
    ELSE SubSeq(roster, 1, IF Len(roster) < FallbackSize THEN Len(roster) ELSE FallbackSize)

----------------------------------------------------------------------------
(* Inputs *)

aBo == << "(", "a", ")", " ", "B", "o" >>
bBo == << "(", "b", ")", " ", "B", "o" >>
cbo == << "(", "c", ")", " ", "b", "o" >>
aBoPadded == << " ", "(", "a", ")", " ", "B", "o", " " >>
Bo == << "B", "o" >>
bo == << "b", "o" >>
BO == << "B", "O" >>
Zz == << "Z", "z" >>
Blank == << " " >>

\* what a roster payload's elements are drawn from
RosterPool == { aBo, bBo, cbo, aBoPadded, Bo, Blank, Null, NonString }

RECURSIVE SeqsUpTo(_, _)
SeqsUpTo(S, n) ==
    IF n = 0 THEN { << >> }
    ELSE LET shorter == SeqsUpTo(S, n - 1)
         IN  shorter \cup { Append(q, x) : q \in { r \in shorter : Len(r) = n - 1 }, x \in S }

\* a roster of n entries "xa", "xb", ..., each its own display name
LongRoster(n) == [ i \in 1..n |-> << "x", (LowerChars \o Digits)[i] >> ]

\* a roster longer than the n of get_close_matches and than the fallback slice
LongRosters == { LongRoster(FallbackSize + 1) }

Payloads ==
    { [ kind |-> k, val |-> << >> ] : k \in { "absent", "empty", "unparseable", "scalar" } }
    \cup { [ kind |-> "list", val |-> r ] : r \in SeqsUpTo(RosterPool, MaxRoster) \cup LongRosters }

\* names a payment text starts with
TextNames == { Bo, bo, BO, aBo, bBo, Zz }

\* what follows the name in a text
TextTails ==
    { << " ", "5" >>, << " ", "0" >>, << " ", "0", ".", "0" >>, << " ", "0", ".", "5" >>, << " ", "-", "5" >>,
      << " ", "1", ".", "5", "0", " ", "U", "S", "D" >>, << " ", "5", " ", "X", "Y", "Z" >>,
      << " ", " ", "7", "G", "E", "L", " " >>, << " ", "5", " ", "E", "U", "R" >>, << >> }

Five == << " ", "5" >>

Texts ==
    { n \o Five : n \in TextNames } \cup { Bo \o t : t \in TextTails }
    \cup { bBo \o << " ", "0", ".", "0", "7" >>, None }

User == [ username |-> << "u" >>, first |-> << "F" >>, last |-> None ]
Unnamed == [ username |-> None, first |-> << "F" >>, last |-> None ]

\* the updates the transport delivers: new messages, and an edited one from a user without a username
Updates ==
    { [ text |-> t, edited |-> FALSE, from_user |-> User ] : t \in Texts }
    \cup { [ text |-> Bo \o Five, edited |-> TRUE, from_user |-> Unnamed ] }

NoUpdate == [ text |-> None, edited |-> FALSE, from_user |-> User ]

\* names find_customer is called with directly
DirectNames == { BO, aBoPadded, cbo, Blank, Null, << >>, << "x" >> }

\* what the LLM call does on a roster: it raises, or it answers with some content,
\* among it the entries at the head of the roster
LLMOutcomes(roster) ==
    { [ raised |-> TRUE, content |-> None ] }
    \cup { [ raised |-> FALSE, content |-> c ] :
            c \in { None, Null, Zz, aBoPadded }
                  \cup { roster[i] : i \in { j \in DOMAIN roster : j <= MaxRoster } } }

----------------------------------------------------------------------------
(* The state machine *)

Init ==
    /\ cfg \in Payloads
    /\ pc = "boot"
    /\ exc = "none"
    /\ customers = << >>
    /\ name_to_full = << >>
    /\ caller = "none"
    /\ update = NoUpdate
    /\ parsed = NoParse
    /\ name = None
    /\ customer_full = None
    /\ tier = "none"
    /\ attempt = 0
    /\ llmCalls = 0
    /\ llmLog = << >>
    /\ closest_matches = << >>
    /\ relevant_customers = << >>
    /\ appendCalls = 0
    /\ ledger = << >>
    /\ replies = << >>

\* lines 16-38 and line 191: the module body up to and including bot = PaymentBot()
Startup ==
    /\ pc = "boot"
    /\ IF EnvMissing(cfg)
       THEN /\ pc' = "crashed"
            /\ exc' = "ValueError"
            /\ UNCHANGED << customers, name_to_full >>
       ELSE LET roster == LoadRoster(cfg)
            IN  /\ customers' = roster
                /\ IF LoadRaises(roster)
                   THEN /\ pc' = "crashed"
                        /\ exc' = "AttributeError"
                        /\ name_to_full' =
                             BuildIndex(<< >>, SubSeq(roster, 1,
                                 (CHOOSE i \in DOMAIN roster :
                                     /\ roster[i] = NonString
                                     /\ \A j \in DOMAIN roster : roster[j] = NonString => i <= j) - 1))
                   ELSE /\ pc' = "idle"
                        /\ exc' = "none"
                        /\ name_to_full' = BuildIndex(<< >>, roster)
    /\ UNCHANGED << cfg, caller, update, parsed, name, customer_full, tier, attempt,
                    llmCalls, llmLog, closest_matches, relevant_customers,
                    appendCalls, ledger, replies >>

\* AfterFind that sends no reply when the customer is not found
AfterFind_silentMiss(u, p, found) ==
    IF Truthy(found)
    THEN /\ pc' = "record"
         /\ attempt' = 1
         /\ replies' = << >>
    ELSE /\ pc' = "idle"
         /\ attempt' = 0
         /\ replies' = << >>

\* lines 99-110 of handle_message, from find_customer's result:
\* on to record_to_sheets, or the not-found reply
AfterFind(u, p, found) ==
    IF Truthy(found)
    THEN /\ pc' = "record"
         /\ attempt' = 1
         /\ replies' = << >>
    ELSE /\ pc' = "idle"
         /\ attempt' = 0
         /\ replies' = << Reply("notFound", p.name, None) >>

\* lines 112-128 of find_customer for the name n, then map_customer_with_gpt's
\* lines 139-140; by is the caller, u the update and p the parsed payment
Lookup(by, u, p, n) ==
    LET cheap == FindCheap(customers, name_to_full, n)
    IN  /\ caller' = by
        /\ update' = u
        /\ parsed' = p
        /\ name' = n
        /\ exc' = "none"
        /\ llmCalls' = 0
        /\ llmLog' = << >>
        /\ appendCalls' = 0
        /\ ledger' = << >>
        /\ IF cheap.tier = "none" /\ customers # << >>
           THEN /\ pc' = "llm"
                /\ attempt' = 1
                /\ closest_matches' = get_close_matches(n, DictKeys(name_to_full))
                /\ relevant_customers' = CandidatePool(customers, name_to_full, closest_matches')
                /\ customer_full' = None
                /\ tier' = "none"
                /\ replies' = << >>
           ELSE /\ customer_full' = cheap.value
                /\ tier' = cheap.tier
                /\ closest_matches' = << >>
                /\ relevant_customers' = << >>
                /\ IF by = "handler"
                   THEN AfterFind(u, p, cheap.value)
                   ELSE /\ pc' = "idle"
                        /\ attempt' = 0
                        /\ replies' = << >>

\* Resolve that stores a case-insensitive hit in the AliasIndex under the name given
Resolve_memoise(by, u, p, n) ==
    LET cheap == FindCheap(customers, name_to_full, n)
    IN  /\ Lookup(by, u, p, n)
        /\ name_to_full' = IF cheap.tier = "ci" THEN DictSet(name_to_full, n, cheap.value)
                           ELSE name_to_full
        /\ UNCHANGED << cfg, customers >>

\* find_customer reads the Roster and the AliasIndex and assigns to neither
Resolve(by, u, p, n) ==
    /\ Lookup(by, u, p, n)
    /\ UNCHANGED << cfg, customers, name_to_full >>

\* handle_message, lines 78-97, up to the first collaborator call
HandleMessage(u) ==
    /\ pc = "idle"
    /\ LET p == IF u.text = None \/ u.text = << >> THEN NoParse ELSE parse_payment(u.text)
       IN  IF p = NoParse
           THEN /\ caller' = "handler"
                /\ update' = u
                /\ parsed' = NoParse
                /\ name' = None
                /\ customer_full' = None
                /\ tier' = "none"
                /\ pc' = "idle"
                /\ exc' = "none"
                /\ attempt' = 0
                /\ llmCalls' = 0
                /\ llmLog' = << >>
                /\ closest_matches' = << >>
                /\ relevant_customers' = << >>
                /\ appendCalls' = 0
                /\ ledger' = << >>
                /\ replies' = << >>
                /\ UNCHANGED << cfg, customers, name_to_full >>
           ELSE Resolve("handler", u, p, p.name)

\* find_customer called on its own
FindCustomer(n) ==
    /\ pc = "idle"
    /\ Resolve("direct", NoUpdate, NoParse, n)

\* one run of map_customer_with_gpt's body inside the retry wrapper (lines 137-177),
\* then the rest of find_customer (lines 130-135) and of handle_message
LLMCall(outcome) ==
    /\ pc = "llm"
    /\ llmCalls' = llmCalls + 1
    /\ llmLog' = Append(llmLog, outcome)
    /\ LET body == GptBody(customers, outcome)
           decision == RetryDecision(body, attempt)
           gpt_result == body.value
           found == IF Truthy(gpt_result) THEN gpt_result ELSE None
       IN  CASE decision = "retry" ->
                    /\ attempt' = attempt + 1
                    /\ UNCHANGED << pc, exc, customer_full, tier, replies >>
             [] decision = "RetryError" ->
                    /\ pc' = "idle"
                    /\ exc' = "RetryError"
                    /\ attempt' = 0
                    /\ UNCHANGED << customer_full, tier, replies >>
             [] OTHER ->
                    /\ customer_full' = found
                    /\ tier' = IF found = None THEN "none" ELSE "llm"
                    /\ exc' = "none"
                    /\ IF caller = "handler"
                       THEN AfterFind(update, parsed, found)
                       ELSE /\ pc' = "idle"
                            /\ attempt' = 0
                            /\ UNCHANGED replies
    /\ UNCHANGED << cfg, customers, name_to_full, caller, update, parsed, name,
                    closest_matches, relevant_customers, appendCalls, ledger >>

\* one run of record_to_sheets's body inside the retry wrapper (lines 179-189),
\* then lines 103-107 of handle_message; ok: append_row returned
RecordToSheets(ok) ==
    /\ pc = "record"
    /\ appendCalls' = appendCalls + 1
    /\ ledger' = IF ok THEN Append(ledger, Row(update, customer_full, parsed.amount)) ELSE ledger
    /\ LET body == SheetsBody(ok)
           decision == RetryDecision(body, attempt)
       IN  CASE decision = "retry" ->
                    /\ attempt' = attempt + 1
                    /\ UNCHANGED << pc, exc, replies >>
             [] decision = "RetryError" ->
                    /\ pc' = "idle"
                    /\ exc' = "RetryError"
                    /\ attempt' = 0
                    /\ UNCHANGED replies
             [] OTHER ->
                    /\ pc' = "idle"
                    /\ exc' = "none"
                    /\ attempt' = 0
                    /\ replies' = Append(replies,
                          IF body.value
                          THEN Reply("success", customer_full, FloatStr(parsed.amount))
                          ELSE Reply("notRecorded", None, None))
    /\ UNCHANGED << cfg, customers, name_to_full, caller, update, parsed, name,
                    customer_full, tier, llmCalls, llmLog, closest_matches,
                    relevant_customers >>

Next ==
    \/ Startup
    \/ \E u \in Updates : HandleMessage(u)
    \/ \E n \in DirectNames : FindCustomer(n)
    \/ \E outcome \in LLMOutcomes(customers) : LLMCall(outcome)
    \/ \E ok \in BOOLEAN : RecordToSheets(ok)

Spec == Init /\ [][Next]_vars

----------------------------------------------------------------------------
(* Vocabulary of the properties *)

\* find_customer has returned for the current request
Returned == caller # "none" /\ name # None /\ pc # "llm"

\* handle_message has returned for the current request
Handled == caller = "handler" /\ pc = "idle"

\* the roster positions that are registered in the AliasIndex under the key k
Registered(k) ==
    { j \in DOMAIN customers : Strip(customers[j]) # << >> /\ AliasKey(Strip(customers[j])) = k }

\* the roster positions whose key equals n ignoring case
RegisteredIgnoringCase(n) ==
    { j \in DOMAIN customers :
        Strip(customers[j]) # << >> /\ Lower(AliasKey(Strip(customers[j]))) = Lower(n) }

Last(J) == CHOOSE j \in J : \A i \in J : i <= j
First(J) == CHOOSE j \in J : \A i \in J : j <= i

\* E is written "(alias) Display", with no whitespace around it
AliasedForm(E) == E = Strip(E) /\ AliasMatch(E)

\* E carries no leading parenthetical alias
PlainForm(E) == ~AliasMatch(Strip(E))

LastCall == llmLog[Len(llmLog)]

\* the last LLM call answered with content that, trimmed, is a roster entry other than "null"
AnsweredInRoster(call) ==
    /\ ~call.raised
    /\ call.content # None
    /\ Strip(call.content) # Null
    /\ Strip(call.content) \in Range(customers)

----------------------------------------------------------------------------
(* C1 *)

\* C1: whenever find_customer returns a record, through any tier, that record is
\* an element of the Roster exactly as loaded.
C1_ResolvedIsRosterMember ==
    (Returned /\ customer_full # None) => customer_full \in Range(customers)

----------------------------------------------------------------------------
(* C2 *)

\* C2: a failed LLM call before the third attempt is followed by another call, and
\* when the first two calls fail and the third answers with a roster entry, the
\* resolution returns that entry after exactly 3 calls.
C2_RetryThenSucceed ==
    (Returned /\ llmLog # << >>) =>
        /\ \A i \in DOMAIN llmLog : (llmLog[i].raised /\ i < MaxAttempts) => Len(llmLog) > i
        /\ (/\ Len(llmLog) = MaxAttempts
            /\ llmLog[1].raised
            /\ llmLog[2].raised
            /\ AnsweredInRoster(llmLog[3]))
           => (customer_full = Strip(llmLog[3].content) /\ llmCalls = MaxAttempts)

----------------------------------------------------------------------------
(* C3 *)

\* C3, as stated: for every roster entry E of the form "(alias) Display",
\* find_customer called with Display in any letter case returns E, whatever else
\* the roster holds.
C3_DisplayResolvesToEntry ==
    Returned =>
        \A i \in DOMAIN customers :
            (AliasedForm(customers[i]) /\ Lower(name) = Lower(AliasKey(customers[i])))
                => customer_full = customers[i]

\* C3, amended: for every roster entry E of the form "(alias) Display" that is the
\* last-loaded entry with the display name Display, find_customer(Display) returns
\* E; and find_customer called with Display in another letter case returns E when
\* that name is neither an AliasIndex key nor a roster entry and Display is the
\* earliest-inserted key that equals it ignoring case.
C3_LastLoadedDisplayResolves ==
    Returned =>
        \A i \in DOMAIN customers :
            LET E == customers[i]
                D == AliasKey(E)
            IN  (/\ AliasedForm(E)
                 /\ Strip(customers[Last(Registered(D))]) = E
                 /\ \/ name = D
                    \/ /\ Lower(name) = Lower(D)
                       /\ Registered(name) = {}
                       /\ name \notin Range(customers)
                       /\ AliasKey(Strip(customers[First(RegisteredIgnoringCase(name))])) = D)
                => customer_full = E

\* an entry that shares its display name with an earlier entry is resolved from
\* that display name, exactly and in another letter case
C3_Witness ==
    /\ Returned
    /\ Len(customers) = 2
    /\ customers[1] = aBo
    /\ customers[2] = bBo
    /\ name \in { Bo, BO }
    /\ customer_full = bBo

----------------------------------------------------------------------------
(* C4 *)

\* C4, as stated: for every roster entry E without a leading parenthetical alias,
\* find_customer called with E returns E, also when an aliased entry has the
\* display name E.
C4_PlainEntryResolvesToItself ==
    Returned =>
        \A i \in DOMAIN customers :
            (PlainForm(customers[i]) /\ name = customers[i]) => customer_full = customers[i]

\* C4, amended: for every roster entry E without a leading parenthetical alias,
\* find_customer called with E returns E, unless the last-loaded roster entry whose
\* display name is E is an aliased entry.
C4_PlainEntryResolvesUnlessShadowed ==
    Returned =>
        \A i \in DOMAIN customers :
            LET E == customers[i]
                J == Registered(E)
            IN  (/\ PlainForm(E)
                 /\ name = E
                 /\ (J = {} \/ PlainForm(customers[Last(J)])))
                => customer_full = E

\* a plain entry that is no AliasIndex key (it is blank) is resolved by the
\* full-record tier, next to an aliased entry
C4_Witness ==
    /\ Returned
    /\ Len(customers) = 2
    /\ customers[1] = aBo
    /\ customers[2] = Blank
    /\ name = Blank
    /\ tier = "full"
    /\ customer_full = Blank

----------------------------------------------------------------------------
(* C5 *)

\* C5: when the name matched no cheap tier and the LLM's answer, trimmed, is
\* "null" or no element of the Roster, find_customer returns None, and what the
\* LLM tier returns is always an element of the Roster.
C5_HallucinationRejected ==
    (Returned /\ llmLog # << >>) =>
        /\ ~AnsweredInRoster(LastCall) => (customer_full = None /\ ledger = << >> /\ pc # "record")
        /\ customer_full # None => customer_full \in Range(customers)

\* the LLM answered with a string outside the roster and the request ended not found
C5_Witness ==
    /\ Handled
    /\ llmLog = << [ raised |-> FALSE, content |-> Zz ] >>
    /\ customers # << >>
    /\ customer_full = None
    /\ replies = << Reply("notFound", name, None) >>

----------------------------------------------------------------------------
(* C6 *)

\* the payload is absent, empty, unparseable or no sequence of strings
Malformed(payload) == payload.kind # "list" \/ NonString \in Range(payload.val)

\* C6: with an absent, empty or malformed roster payload, no exception escapes
\* startup, the Roster is empty, and every find_customer call returns None
\* without an LLM call.
C6_FailOpenStartup ==
    (pc # "boot" /\ Malformed(cfg)) =>
        /\ exc = "none"
        /\ pc # "crashed"
        /\ customers = << >>
        /\ llmCalls = 0
        /\ customer_full = None

----------------------------------------------------------------------------
(* C7 *)

\* C7: a handled message made exactly one ledger append when it parsed as a
\* payment and resolution returned a record, none otherwise, and an appended row
\* carries the resolved customer and the amount parsed from that message.
C7_OneAppendPerResolvedPayment ==
    Handled =>
        /\ appendCalls = IF parsed # NoParse /\ Truthy(customer_full) THEN 1 ELSE 0
        /\ Len(ledger) <= appendCalls
        /\ parsed = (IF update.text = None THEN NoParse ELSE parse_payment(update.text))
        /\ \A r \in DOMAIN ledger :
              /\ ledger[r].customer = customer_full
              /\ ledger[r].amount = FloatStr(parsed.amount)

\* a payment named in another letter case was appended once under its canonical record
C7_Witness ==
    /\ Handled
    /\ name = BO
    /\ customer_full = aBo
    /\ appendCalls = 1
    /\ Len(ledger) = 1
    /\ ledger[1].customer = aBo
    /\ ledger[1].amount = << "5", ".", "0" >>

----------------------------------------------------------------------------
(* C8 *)

\* C8: the not-recorded outcome is reported only after the third consecutive
\* failed append, and an append is attempted at most 3 times.
C8_AppendRetried ==
    Handled =>
        /\ appendCalls <= MaxAttempts
        /\ Reply("notRecorded", None, None) \in Range(replies) => appendCalls = MaxAttempts

----------------------------------------------------------------------------
(* C9 *)

\* C9: no exception leaves handle_message; a failed LLM call ends the message
\* with the not-found reply and no ledger append, and a failed append ends it
\* with the not-recorded reply and no success reply.
C9_FailuresContained ==
    /\ (caller = "handler") => exc = "none"
    /\ (Handled /\ llmLog # << >> /\ LastCall.raised) =>
            /\ replies = << Reply("notFound", name, None) >>
            /\ appendCalls = 0
            /\ ledger = << >>
    /\ (Handled /\ appendCalls > 0 /\ ledger = << >>) =>
            replies = << Reply("notRecorded", None, None) >>

\* the LLM call raised and the message ended with the not-found reply
C9_Witness ==
    /\ Handled
    /\ llmLog # << >>
    /\ LastCall.raised
    /\ exc = "none"
    /\ replies = << Reply("notFound", name, None) >>

----------------------------------------------------------------------------
(* C10 *)

ZeroOrNegative ==
    { Bo \o << " ", "0" >>, Bo \o << " ", "0", ".", "0" >>, Bo \o << " ", "-", "5" >> }

\* C10: every parsed payment has an amount above zero, a text whose numeric token
\* is zero or negative yields no result, and neither find_customer nor the ledger
\* append is reached for it.
C10_AmountPositive ==
    /\ parsed # NoParse => parsed.amount > 0
    /\ (caller = "handler" /\ name # None) => (parsed # NoParse /\ parsed.amount > 0)
    /\ (caller = "handler" /\ update.text \in ZeroOrNegative) =>
            /\ parsed = NoParse
            /\ name = None
            /\ llmCalls = 0
            /\ appendCalls = 0
            /\ replies = << >>
    /\ \A r \in DOMAIN ledger : ledger[r].amount # << "0", ".", "0" >>

\* a text with the numeric token 0 was handled and ignored
C10_Witness ==
    /\ Handled
    /\ update.text = Bo \o << " ", "0" >>
    /\ parsed = NoParse
    /\ replies = << >>

----------------------------------------------------------------------------
(* C11 *)

Letters == UpperSet \cup Range(LowerChars)

\* t is a name, whitespace and a number that parse_payment accepts
NameAndAmount(t) == t # << >> /\ t[Len(t)] \in DigitSet /\ parse_payment(t) # NoParse

\* the ways to read the handled text as "N A" followed by a token of the set Tokens,
\* after a space or, when glued, directly
Readings(Tokens, glued) ==
    LET t == Strip(update.text)
    IN  { k \in 1..Len(t) :
            /\ NameAndAmount(SubSeq(t, 1, k))
            /\ \E C \in Tokens :
                  \/ Drop(t, k + 1) = << " " >> \o C
                  \/ glued /\ Drop(t, k + 1) = C }

\* alphabetic tokens that the handled texts end with
AlphabeticTokens == { C \in Currencies \cup { << "X", "Y", "Z" >> } : Range(C) \subseteq Letters }

\* C11, as stated: a text "N A C" with any alphabetic token C parses to the same
\* name and amount as "N A".
C11_AnyAlphabeticTokenDiscarded ==
    (Handled /\ update.text # None) =>
        \A k \in Readings(AlphabeticTokens, FALSE) :
            parsed = parse_payment(SubSeq(Strip(update.text), 1, k))

\* C11, amended: a text "N A C" (or "N AC") whose token C is one of GEL, USD, EUR
\* parses to the same name and amount as "N A"; with any other trailing token the
\* text does not parse.
C11_CurrencyCodeDiscarded ==
    (Handled /\ update.text # None) =>
        /\ \A k \in Readings(Currencies, TRUE) :
              parsed = parse_payment(SubSeq(Strip(update.text), 1, k))
        /\ Readings(AlphabeticTokens \ Currencies, TRUE) # {} => parsed = NoParse

\* a payment text ending in a currency code was handled
C11_Witness ==
    /\ Handled
    /\ update.text = Bo \o << " ", "1", ".", "5", "0", " ", "U", "S", "D" >>
    /\ parsed = [ name |-> Bo, amount |-> 150 ]

----------------------------------------------------------------------------
(* C12 *)

\* C12: once PaymentBot is constructed, no step of any request changes the Roster
\* or the AliasIndex.
C12_RosterReadOnly ==
    [][pc # "boot" => (customers' = customers /\ name_to_full' = name_to_full)]_vars

\* a request is resolved through the case-insensitive tier, on the roster and the
\* index as construction left them
C12_Witness ==
    /\ Returned
    /\ tier = "ci"
    /\ name = BO
    /\ customers = << cbo, Bo >>
    /\ name_to_full = << << bo, cbo >>, << Bo, Bo >> >>

----------------------------------------------------------------------------
(* C13 *)

\* the fuzzy selector and the LLM collaborator have been invoked for the current request
LLMTierEntered == caller # "none" /\ (pc = "llm" \/ llmCalls > 0)

\* C13: the tiers are tried in the order exact alias, full record, case-insensitive
\* alias, fuzzy+LLM, stopping at the first hit: a full-record result means the name
\* is no AliasIndex key, a case-insensitive result means it is neither a key nor a
\* Roster entry, the fuzzy selector and the LLM are invoked only when the name is
\* none of the three, and the LLM tier is evaluated at most once per resolution.
C13_TiersInOrder ==
    (caller # "none" /\ name # None) =>
        /\ tier = "alias" => DictHas(name_to_full, name)
        /\ tier = "full" => (~DictHas(name_to_full, name) /\ name \in Range(customers))
        /\ tier = "ci" =>
              /\ ~DictHas(name_to_full, name)
              /\ name \notin Range(customers)
              /\ \E k \in Range(DictKeys(name_to_full)) : Lower(k) = Lower(name)
        /\ LLMTierEntered =>
              /\ ~DictHas(name_to_full, name)
              /\ name \notin Range(customers)
              /\ \A k \in Range(DictKeys(name_to_full)) : Lower(k) # Lower(name)
        /\ llmCalls <= 1
        /\ (closest_matches # << >> \/ relevant_customers # << >>) => LLMTierEntered

\* the first three tiers missed a name and the LLM was asked, on a roster with keys
C13_Witness ==
    /\ Returned
    /\ name = Zz
    /\ customers = << cbo, Bo >>
    /\ llmCalls = 1
    /\ tier = "llm"

----------------------------------------------------------------------------
(* C14 *)

\* the call answered with a string that validation rejects: "null", or no Roster entry
FailsValidation(call) ==
    /\ ~call.raised
    /\ call.content # None
    /\ ~AnsweredInRoster(call)

\* C14: when the LLM answers with a string that fails validation ("null" or a
\* string that is no Roster entry), the LLM is not called again for that
\* resolution: exactly one call is made and the resolution returns NotFound.
C14_NoRetryOnInvalidAnswer ==
    (llmLog # << >> /\ FailsValidation(llmLog[1])) =>
        /\ pc # "llm"
        /\ llmCalls = 1
        /\ Len(llmLog) = 1
        /\ customer_full = None
        /\ tier = "none"
        /\ caller = "handler" => replies = << Reply("notFound", name, None) >>

\* the LLM answered a payment's name with a string outside the roster
C14_Witness ==
    /\ Handled
    /\ name = Zz
    /\ customers = << cbo, Bo >>
    /\ llmLog = << [ raised |-> FALSE, content |-> aBoPadded ] >>
    /\ customer_full = None

----------------------------------------------------------------------------
(* C15 *)

\* C15: when two or more roster records normalize to the same display name, the
\* AliasIndex maps that display name to the record that comes last in load order,
\* and an exact alias lookup of the display name returns that last-loaded record.
C15_LastLoadedRecordWins ==
    /\ pc \notin { "boot", "crashed" } =>
          \A k \in Range(DictKeys(name_to_full)) :
              Cardinality(Registered(k)) >= 2 =>
                  DictGet(name_to_full, k) = customers[Last(Registered(k))]
    /\ (Returned /\ Cardinality(Registered(name)) >= 2) =>
          (tier = "alias" /\ customer_full = customers[Last(Registered(name))])

----------------------------------------------------------------------------
(* C16 *)

\* the AliasIndex keys that equal n ignoring case
KeysIgnoringCase(n) == { k \in Range(DictKeys(name_to_full)) : Lower(k) = Lower(n) }

\* the earliest-inserted of them: a key is inserted when the first roster record
\* with that key is loaded
EarliestKeyIgnoringCase(n) ==
    AliasKey(Strip(customers[First(RegisteredIgnoringCase(n))]))

\* C16: in the case-insensitive tier (the name is no AliasIndex key and no Roster
\* entry), when one or several keys equal the name ignoring case, find_customer
\* returns the record the AliasIndex maps from the earliest-inserted of those keys.
C16_EarliestKeyWins ==
    (/\ Returned
     /\ ~DictHas(name_to_full, name)
     /\ name \notin Range(customers)
     /\ KeysIgnoringCase(name) # {})
        => /\ tier = "ci"
           /\ EarliestKeyIgnoringCase(name) \in KeysIgnoringCase(name)
           /\ customer_full = DictGet(name_to_full, EarliestKeyIgnoringCase(name))

\* two keys equal the name ignoring case and the earlier-inserted one is returned
C16_Witness ==
    /\ Returned
    /\ name = BO
    /\ customers = << cbo, Bo >>
    /\ KeysIgnoringCase(name) = { bo, Bo }
    /\ customer_full = cbo

----------------------------------------------------------------------------
(* C17 *)

Min(a, b) == IF a < b THEN a ELSE b

\* C17: whenever the LLM is invoked the candidate pool is non-empty and bounded.
\* If the fuzzy selector yields no alias key (none reaches the cutoff) the pool is
\* exactly the first min(30, |Roster|) Roster records in load order; otherwise it
\* is the AliasIndex records of the selected keys, at most 20, in selector order.
C17_CandidatePoolBounded ==
    LLMTierEntered =>
        LET keys == Range(DictKeys(name_to_full))
        IN  /\ relevant_customers # << >>
            /\ Len(relevant_customers) <= FallbackSize
            /\ closest_matches = << >> <=> \A k \in keys : ~ClearsCutoff(k, name)
            /\ closest_matches = << >> =>
                  relevant_customers = SubSeq(customers, 1, Min(FallbackSize, Len(customers)))
            /\ closest_matches # << >> =>
                  /\ Len(closest_matches) <= MaxCandidates
                  /\ \A i \in DOMAIN closest_matches :
                        closest_matches[i] \in keys /\ ClearsCutoff(closest_matches[i], name)
                  /\ DOMAIN relevant_customers = DOMAIN closest_matches
                  /\ \A i \in DOMAIN closest_matches :
                        relevant_customers[i] = DictGet(name_to_full, closest_matches[i])

\* on a roster of more than 30 records, none of whose keys resembles the name, the
\* LLM is asked with the first 30 records
C17_Witness ==
    /\ LLMTierEntered
    /\ llmCalls = 1
    /\ Len(customers) > FallbackSize
    /\ closest_matches = << >>
    /\ Len(relevant_customers) = FallbackSize
    /\ relevant_customers[FallbackSize] = customers[FallbackSize]

----------------------------------------------------------------------------
(* C18 *)

\* the text of the handled update does not describe a payment
ParseMiss ==
    \/ update.text = None
    \/ update.text = << >>
    \/ parse_payment(update.text) = NoParse

\* C18: a handled message whose text does not parse as a payment causes no
\* resolution, no LLM call, no ledger append and no reply; one that parses gets
\* exactly one reply, sent when the handler ends: the success reply only if the
\* append succeeded, the not-recorded reply if the customer was resolved but the
\* append failed, the not-found reply if the customer was not resolved.
C18_OneReplyPerPayment ==
    /\ (caller = "handler" /\ pc \in { "llm", "record" }) => (~ParseMiss /\ replies = << >>)
    /\ Handled =>
          IF ParseMiss
          THEN /\ parsed = NoParse
               /\ name = None
               /\ customer_full = None
               /\ llmCalls = 0
               /\ appendCalls = 0
               /\ ledger = << >>
               /\ replies = << >>
          ELSE /\ parsed = parse_payment(update.text)
               /\ name = parsed.name
               /\ Len(replies) = 1
               /\ replies[1].kind = "success" <=> Len(ledger) = 1
               /\ replies[1].kind = "success" =>
                     /\ customer_full # None
                     /\ replies[1] = Reply("success", customer_full, FloatStr(parsed.amount))
               /\ replies[1].kind = "notRecorded" <=> (customer_full # None /\ ledger = << >>)
               /\ customer_full # None => appendCalls >= 1
               /\ customer_full = None <=> replies[1] = Reply("notFound", name, None)
               /\ customer_full = None => appendCalls = 0

\* a payment whose customer was resolved but whose append failed got the
\* not-recorded reply
C18_Witness ==
    /\ Handled
    /\ ~ParseMiss
    /\ customer_full # None
    /\ appendCalls = 1
    /\ ledger = << >>
    /\ replies = << Reply("notRecorded", None, None) >>

====
